---------------------------- MODULE Spec2Model ----------------------------
(***************************************************************************)
(* A model of the recurrent DQN core in src/dqn.cpp and src/dqn.hpp: the   *)
(* episodic replay memory and its persistence, the checkpoint file family, *)
(* and epsilon-greedy batched action selection.                            *)
(*                                                                         *)
(* Representation.                                                         *)
(*  - A FrameData (std::array<uint8_t, kCroppedFrameDataSize>) is a        *)
(*    sequence of FrameBytes pixels; a boost::optional<FrameDataSp> is a   *)
(*    sequence holding no frame or one frame.                              *)
(*  - A Transition is the record [frame, action, reward, next]             *)
(*    (std::get<0>..std::get<3>), an Episode a sequence of transitions,    *)
(*    the ReplayMemory (a deque) a sequence of episodes, front first.      *)
(*  - The staging buffers are flat, 0-based arrays (functions on 0..n-1),  *)
(*    addressed by the blob offsets the code computes.                     *)
(*  - A file is the record [prefix, iter, ext] of its name                 *)
(*    <prefix>_iter_<iter>.<ext>; the file system fs maps the names of the *)
(*    regular files of the directory to their contents.                    *)
(*  - ret holds what the last call returned and logged.                    *)
(***************************************************************************)
EXTENDS Integers, Sequences, FiniteSets, TLC

VARIABLES
    legal_actions_,           \* const ActionVect legal_actions_
    replay_memory_capacity_,  \* const int replay_memory_capacity_
    gamma_,                   \* const double gamma_
    clone_frequency_,         \* const int clone_frequency_
    minibatch_size_,          \* int minibatch_size_
    frames_per_timestep_,     \* int frames_per_timestep_
    unroll_,                  \* int unroll_
    replay_memory_,           \* ReplayMemory replay_memory_
    replay_memory_size_,      \* int replay_memory_size_
    frame_input_,             \* std::vector<float> frame_input_
    cont_input_,              \* std::vector<float> cont_input_
    target_input_,            \* std::vector<float> target_input_
    filter_input_,            \* std::vector<float> filter_input_
    q_values_blob,            \* the "q_values" blob of test_net_: the entries
                              \* SelectActionGreedily reads
    clone_net_,               \* NetSp clone_net_ (the parameters it holds)
    last_clone_iter_,         \* int last_clone_iter_
    solver_iter,              \* solver_->iter()
    fs,                       \* the regular files of the snapshot directory
    ret,                      \* what the last call returned and logged
    appended,                 \* the episodes that entered the memory since it
                              \* was last empty, in order
    saved                     \* per file written by SnapshotReplayMemory, the
                              \* replay memory it was written from

vars == <<legal_actions_, replay_memory_capacity_, gamma_, clone_frequency_,
          minibatch_size_,
          frames_per_timestep_, unroll_, replay_memory_, replay_memory_size_,
          frame_input_, cont_input_, target_input_, filter_input_,
          q_values_blob, clone_net_, last_clone_iter_,
          solver_iter, fs, ret, appended, saved>>

config_vars == <<legal_actions_, replay_memory_capacity_, gamma_,
                 clone_frequency_, minibatch_size_, frames_per_timestep_,
                 unroll_>>

memory_vars == <<replay_memory_, replay_memory_size_>>

buffer_vars == <<frame_input_, cont_input_, target_input_, filter_input_>>

net_vars == <<q_values_blob, clone_net_, last_clone_iter_,
              solver_iter>>

-----------------------------------------------------------------------------
(* Bounds of the model *)

\* replay capacities 1..MaxCapacity are explored
MaxCapacity == 10

\* episodes handed to RememberEpisode have 0..MaxEpLen transitions
MaxEpLen == 4

\* episode contents are generated from a seed in 0..MaxSeed
MaxSeed == 1

\* at most MaxAppends calls of RememberEpisode in one behaviour
MaxAppends == 3

\* pixels take the values 0..MaxPixel
MaxPixel == 1

\* pixels per frame (kCroppedFrameDataSize in the code)
FrameBytes == 1

\* epsilon and the coin of SelectActions are multiples of 1/EpsilonSteps
EpsilonSteps == 2

\* the Q-values a forward pass produces are 0..MaxQ
MaxQ == 1

\* the updates start while the solver's iteration is below MaxIter
MaxIter == 3

\* raw screens are drawn in the colours 0, 2, .. 2 * MaxColour of the palette
MaxColour == 15

-----------------------------------------------------------------------------
(* Data types *)

kOutputCount == 18

\* DQN::DQN: frames_per_forward_ = unroll_ + frames_per_timestep_ - 1
frames_per_forward_ == unroll_ + frames_per_timestep_ - 1

RewardVals == <<0, 1, -1>>

NoFrame == <<>>

\* the frame whose pixel k is (base + k) mod (MaxPixel + 1)
MakeFrame(base) == [k \in 1..FrameBytes |-> (base + k - 1) % (MaxPixel + 1)]

ZeroFrame == [k \in 1..FrameBytes |-> 0]

\* An episode as the environment loop records it: transition j's next frame
\* is transition j+1's frame; the last transition has no next frame when the
\* episode ended in a terminal state, and has one when the episode was cut off.
MakeEpisode(len, seed, cut, legal) ==
    [j \in 1..len |->
        [frame  |-> MakeFrame(seed + j),
         action |-> legal[((seed + j) % Len(legal)) + 1],
         reward |-> RewardVals[((seed + j) % 3) + 1],
         next   |-> IF j < len \/ cut THEN <<MakeFrame(seed + j + 1)>>
                    ELSE NoFrame]]

TerminalEpisodes ==
    {MakeEpisode(len, seed, FALSE, legal_actions_) :
        len \in 0..MaxEpLen, seed \in 0..MaxSeed}

RECURSIVE SumLen(_)
SumLen(mem) == IF mem = <<>> THEN 0 ELSE Len(Head(mem)) + SumLen(Tail(mem))

-----------------------------------------------------------------------------
(* DQN::RememberEpisode *)

\* while (replay_memory_size_ >= replay_memory_capacity_)
EvictConditionLate(size, capacity) == size > capacity + 1

EvictCondition(size, capacity) == size >= capacity

\* replay_memory_size_ -= replay_memory_.front().size(); replay_memory_.pop_front();
EvictBack(mem, size) ==
    [mem     |-> SubSeq(mem, 1, Len(mem) - 1),
     size    |-> size - Len(mem[Len(mem)]),
     evicted |-> 1]

EvictFront(mem, size) ==
    [mem     |-> Tail(mem),
     size    |-> size - Len(Head(mem)),
     evicted |-> 1]

RECURSIVE EvictLoop(_, _, _, _)
EvictLoop(mem, size, capacity, evicted) ==
    IF EvictCondition(size, capacity)
    THEN LET e == EvictFront(mem, size)
         IN  EvictLoop(e.mem, e.size, capacity, evicted + e.evicted)
    ELSE [mem |-> mem, size |-> size, evicted |-> evicted]

RememberEpisode(episode) ==
    /\ Len(appended) < MaxAppends
    /\ LET size_added == replay_memory_size_ + Len(episode)
           pushed     == Append(replay_memory_, episode)
           r          == EvictLoop(pushed, size_added, replay_memory_capacity_, 0)
       IN  /\ replay_memory_' = r.mem
           /\ replay_memory_size_' = r.size
           /\ ret' = [op |-> "RememberEpisode", size_added |-> size_added,
                      evicted |-> r.evicted]
    /\ appended' = Append(appended, episode)
    /\ UNCHANGED <<config_vars, buffer_vars, net_vars, fs, saved>>

-----------------------------------------------------------------------------
(* The file system *)

File(prefix, iter, ext) == [prefix |-> prefix, iter |-> iter, ext |-> ext]

IsRegularFile(files, f) == f \in DOMAIN files

WriteFile(files, f, content) == (f :> content) @@ files

RemoveFiles(files, gone) == [g \in (DOMAIN files) \ gone |-> files[g]]

-----------------------------------------------------------------------------
(* DQN::ClearReplayMemory, DQN::SnapshotReplayMemory, DQN::LoadReplayMemory *)
(*                                                                         *)
(* The replay-memory stream is the sequence of the fields written, one     *)
(* element per int, float or pixel; the gzip filter of the stream is       *)
(* transparent and is left out.                                            *)

ClearReplayMemory ==
    /\ replay_memory_' = <<>>
    /\ replay_memory_size_' = 0
    /\ appended' = <<>>
    /\ ret' = [op |-> "ClearReplayMemory"]
    /\ UNCHANGED <<config_vars, buffer_vars, net_vars, fs, saved>>

\* out.write(frame), out.write(action), out.write(reward)
SerializeTransitionRewardFirst(t) == t.frame \o <<t.reward, t.action>>

SerializeTransition(t) == t.frame \o <<t.action, t.reward>>

RECURSIVE SerializeEpisode(_)
SerializeEpisode(ep) ==
    IF ep = <<>> THEN <<>>
    ELSE SerializeTransition(Head(ep)) \o SerializeEpisode(Tail(ep))

RECURSIVE SerializeEpisodes(_)
SerializeEpisodes(mem) ==
    IF mem = <<>> THEN <<>>
    ELSE SerializeEpisode(Head(mem)) \o SerializeEpisodes(Tail(mem))

\* num_episodes, then every ep_len, then every transition in episode order
SerializeMemory(mem) ==
    <<Len(mem)>> \o [i \in 1..Len(mem) |-> Len(mem[i])] \o SerializeEpisodes(mem)

\* the ofstream is opened and written without a check; the writes are taken
\* to succeed
SnapshotReplayMemory(filename) ==
    /\ fs' = WriteFile(fs, filename, SerializeMemory(replay_memory_))
    /\ saved' = WriteFile(saved, filename, replay_memory_)
    /\ ret' = [op |-> "SnapshotReplayMemory", filename |-> filename]
    /\ UNCHANGED <<config_vars, memory_vars, buffer_vars, net_vars, appended>>

\* the fields of one transition in the stream
TransitionFields == FrameBytes + 2

\* the stream behind the filename: empty when the file cannot be opened
StreamOf(files, filename) ==
    IF IsRegularFile(files, filename) THEN files[filename] ELSE <<>>

\* in.read of the field at position pos (1-based) into a variable holding
\* before: once the stream is exhausted the read fails and leaves the
\* variable as it was, as does every read after it
ReadField(stream, pos, before) ==
    IF pos <= Len(stream) THEN stream[pos] ELSE before

\* the episodes whose "int ep_len;" is left uninitialized by a failed read
UnreadLengths(stream) ==
    {i \in 1..ReadField(stream, 1, 0) : 1 + i > Len(stream)}

\* ep_len of episode i: read from the stream, or the uninitialized value
EpLen(stream, garbage, i) ==
    IF 1 + i <= Len(stream) THEN stream[1 + i] ELSE garbage[i]

RECURSIVE TransitionsBefore(_, _, _)
TransitionsBefore(stream, garbage, i) ==
    IF i <= 1 THEN 0
    ELSE TransitionsBefore(stream, garbage, i - 1) + EpLen(stream, garbage, i - 1)

\* the position before the first field of transition j of episode i
TransitionPos(stream, garbage, i, j) ==
    1 + ReadField(stream, 1, 0)
      + (TransitionsBefore(stream, garbage, i) + (j - 1)) * TransitionFields

\* std::make_shared<FrameData>() is zero-filled, then in.read fills it
LoadedFrame(stream, pos) ==
    [k \in 1..FrameBytes |-> ReadField(stream, pos + k, 0)]

\* if (j > 0) std::get<3>(ep[j-1]) = frame; the last transition keeps the
\* empty optional that resize() constructed
LoadedNext(stream, garbage, i, j) ==
    IF j < EpLen(stream, garbage, i)
    THEN <<LoadedFrame(stream, TransitionPos(stream, garbage, i, j + 1))>>
    ELSE NoFrame

\* a value-initialized Transition has action 0 and reward 0
LoadedTransition(stream, garbage, i, j) ==
    LET pos == TransitionPos(stream, garbage, i, j)
    IN  [frame  |-> LoadedFrame(stream, pos),
         action |-> ReadField(stream, pos + FrameBytes + 1, 0),
         reward |-> ReadField(stream, pos + FrameBytes + 2, 0),
         next   |-> LoadedNext(stream, garbage, i, j)]

\* int num_episodes = memory_size(), which is 0 after ClearReplayMemory
LoadedMemory(stream, garbage) ==
    [i \in 1..ReadField(stream, 1, 0) |->
        [j \in 1..EpLen(stream, garbage, i) |->
            LoadedTransition(stream, garbage, i, j)]]

\* in.fail() when LoadReplayMemory returns: some read found the stream short
FailBit(stream, mem) ==
    Len(stream) < 1 + Len(mem) + SumLen(mem) * TransitionFields

\* replay_memory_size_ += ep_len for every episode, from the 0 that
\* ClearReplayMemory left
LoadedSize(mem) == 0 + SumLen(mem)

\* LoadReplayMemory returns void, throws nothing and never tests the stream:
\* error is what it reports to its caller
LoadReplayMemory(filename) ==
    LET stream == StreamOf(fs, filename)
    IN  \E garbage \in [UnreadLengths(stream) -> 0..MaxEpLen] :
           LET mem == LoadedMemory(stream, garbage)
           IN  /\ replay_memory_' = mem
               /\ replay_memory_size_' = LoadedSize(mem)
               /\ appended' = mem
               /\ ret' = [op |-> "LoadReplayMemory", filename |-> filename,
                          cleared |-> replay_memory_size_,
                          failbit |-> FailBit(stream, mem), error |-> FALSE]
               /\ UNCHANGED <<config_vars, buffer_vars, net_vars, fs, saved>>

-----------------------------------------------------------------------------
(* RemoveSnapshots, FindLatestSnapshot, DQN::Snapshot *)
(*                                                                         *)
(* A snapshot prefix is a sequence of characters. RemoveSnapshots and      *)
(* FindLatestSnapshot paste it into a regular expression that              *)
(* boost::regex_match applies to whole file names, so a "." of the prefix  *)
(* stands for any character. The iteration of a file name is kept as the   *)
(* number its decimal digits spell.                                        *)

Exts == {"caffemodel", "solverstate", "replaymemory"}

\* the empty string FindLatestSnapshot returns when it finds nothing
NoFile == [prefix |-> <<>>, iter |-> -1, ext |-> ""]

\* regex_match of the prefix part of the expression on a file's prefix
PrefixMatches(pattern, prefix) ==
    /\ Len(pattern) = Len(prefix)
    /\ \A k \in 1..Len(pattern) : pattern[k] = "." \/ pattern[k] = prefix[k]

\* the regular files matching <pattern>_iter_[0-9]+\.(<exts>)
FilesMatchingRegexp(files, pattern, exts) ==
    {f \in DOMAIN files : PrefixMatches(pattern, f.prefix) /\ f.ext \in exts}

ParseIterFromSnapshot(f) == f.iter

\* the files RemoveSnapshots removes: iter < min_iter
SnapshotsToRemove(files, prefix, min_iter) ==
    {f \in FilesMatchingRegexp(files, prefix, Exts) :
        ParseIterFromSnapshot(f) < min_iter}

RemoveSnapshots(files, prefix, min_iter) ==
    RemoveFiles(files, SnapshotsToRemove(files, prefix, min_iter))

\* is_regular_file(caffemodel) && is_regular_file(replaymemory), both named
\* after the stem of the .solverstate file f
HasCaffemodelOnly(files, f) ==
    IsRegularFile(files, File(f.prefix, f.iter, "caffemodel"))

HasCaffemodelAndMemory(files, f) ==
    /\ IsRegularFile(files, File(f.prefix, f.iter, "caffemodel"))
    /\ IsRegularFile(files, File(f.prefix, f.iter, "replaymemory"))

\* the loop of FindLatestSnapshot over matching_files, from position k
RECURSIVE ScanSnapshots(_, _, _, _, _)
ScanSnapshots(files, matching_files, k, max_iter, latest) ==
    IF k > Len(matching_files) THEN latest
    ELSE LET f    == matching_files[k]
             iter == ParseIterFromSnapshot(f)
         IN  IF iter > max_iter /\ HasCaffemodelAndMemory(files, f)
             THEN ScanSnapshots(files, matching_files, k + 1, iter, f)
             ELSE ScanSnapshots(files, matching_files, k + 1, max_iter, latest)

\* the orders in which the directory iterator may list a set of files
RECURSIVE ScanOrders(_)
ScanOrders(S) ==
    IF S = {} THEN {<<>>}
    ELSE UNION {{<<f>> \o rest : rest \in ScanOrders(S \ {f})} : f \in S}

FindLatestSnapshot(prefix) ==
    /\ \E matching_files \in
            ScanOrders(FilesMatchingRegexp(fs, prefix, {"solverstate"})) :
          ret' = [op |-> "FindLatestSnapshot", prefix |-> prefix,
                  scanned |-> matching_files,
                  latest |-> ScanSnapshots(fs, matching_files, 1, -1, NoFile)]
    /\ UNCHANGED <<config_vars, memory_vars, buffer_vars, net_vars, fs,
                   appended, saved>>

\* solver_->Snapshot(prefix) leaves <prefix>_iter_<N>.caffemodel and
\* .solverstate, N = current_iteration() + 1, as the two CHECKs require
SolverSnapshot(files, prefix, snapshot_iter) ==
    WriteFile(WriteFile(files, File(prefix, snapshot_iter, "caffemodel"),
                        <<snapshot_iter>>),
              File(prefix, snapshot_iter, "solverstate"), <<snapshot_iter>>)

Snapshot(prefix, remove_old, snapshot_memory) ==
    LET snapshot_iter == solver_iter + 1
        mem_fname     == File(prefix, snapshot_iter, "replaymemory")
        solved        == SolverSnapshot(fs, prefix, snapshot_iter)
        written       == IF snapshot_memory
                         THEN WriteFile(solved, mem_fname,
                                        SerializeMemory(replay_memory_))
                         ELSE solved
        removed       == IF remove_old
                         THEN SnapshotsToRemove(written, prefix, snapshot_iter)
                         ELSE {}
        kept          == IF remove_old
                         THEN RemoveSnapshots(written, prefix, snapshot_iter)
                         ELSE written
        noted         == IF snapshot_memory
                         THEN WriteFile(saved, mem_fname, replay_memory_)
                         ELSE saved
    IN  /\ fs' = kept
        /\ saved' = RemoveFiles(noted, removed)
        /\ ret' = [op |-> "Snapshot", prefix |-> prefix,
                   snapshot_iter |-> snapshot_iter, remove_old |-> remove_old,
                   snapshot_memory |-> snapshot_memory,
                   before |-> DOMAIN fs, removed |-> removed]
        /\ UNCHANGED <<config_vars, memory_vars, buffer_vars, net_vars,
                       appended>>

-----------------------------------------------------------------------------
(* DQN::SelectActions, DQN::SelectActionGreedily *)

Range(seq) == {seq[k] : k \in 1..Len(seq)}

\* frames_blob->offset(n, i, 0, 0) of the test net's "all_frames" blob, of
\* shape {minibatch_size_, frames_per_timestep_, 84, 84}
TestFramesOffset(n, i) == (n * frames_per_timestep_ + i) * FrameBytes

\* std::fill(frame_input_, 0.0f), then the copy of frame i of every batch
\* item n to offset(n, i, 0, 0)
StagedFrames(buffer, frames_batch) ==
    [x \in DOMAIN buffer |->
        IF \E n \in 0..(Len(frames_batch) - 1), i \in 0..(frames_per_timestep_ - 1),
              k \in 0..(FrameBytes - 1) : x = TestFramesOffset(n, i) + k
        THEN LET n == x \div (frames_per_timestep_ * FrameBytes)
                 i == (x \div FrameBytes) % frames_per_timestep_
                 k == x % FrameBytes
             IN  frames_batch[n + 1][i + 1][k + 1]
        ELSE 0]

\* std::fill(cont_input_.begin(), cont_input_.end(), cont)
FilledContFirstStep(buffer, cont) ==
    [x \in DOMAIN buffer |->
        IF x < minibatch_size_ THEN (IF cont THEN 1 ELSE 0) ELSE buffer[x]]

FilledCont(buffer, cont) == [x \in DOMAIN buffer |-> IF cont THEN 1 ELSE 0]

\* std::max_element: the position of the first largest element
RECURSIVE MaxElementLast(_, _, _)
MaxElementLast(q_values, k, best) ==
    IF k > Len(q_values) THEN best
    ELSE MaxElementLast(q_values, k + 1,
                        IF q_values[best] <= q_values[k] THEN k ELSE best)

RECURSIVE MaxElement(_, _, _)
MaxElement(q_values, k, best) ==
    IF k > Len(q_values) THEN best
    ELSE MaxElement(q_values, k + 1,
                    IF q_values[best] < q_values[k] THEN k ELSE best)

\* the ActionValue of batch item i: q_values holds data_at(0, i, action, 0)
\* for every legal action, in the order of legal_actions_
GreedyResult(blob, i) ==
    LET q_values == [k \in 1..Len(legal_actions_) |-> blob[i][legal_actions_[k]]]
        max_idx  == MaxElement(q_values, 2, 1)
    IN  <<legal_actions_[max_idx], q_values[max_idx]>>

\* what a forward pass may leave in the q_values blob for a batch of n
\* items: any value for every item and legal action
ForwardOutputs(n) == [0..(n - 1) -> [Range(legal_actions_) -> 0..MaxQ]]

\* uniform_real_distribution<>(0.0, 1.0)(random_engine) < epsilon, the coin
\* being one of 0, 1/EpsilonSteps, .. below 1
ExploresSwapped(coin, epsilon) == epsilon < coin

Explores(coin, epsilon) == coin < epsilon

\* the random branch: one uniform_int_distribution draw per batch item
SelectRandomly(frames_batch, epsilon) ==
    /\ \E random_idx \in [1..Len(frames_batch) -> 0..(Len(legal_actions_) - 1)] :
          ret' = [op |-> "SelectActions", epsilon |-> epsilon,
                  coin_flips |-> 1, branch |-> "random", forwards |-> 0,
                  actions |-> [i \in 1..Len(frames_batch) |->
                                  legal_actions_[random_idx[i] + 1]]]
    /\ UNCHANGED <<buffer_vars, q_values_blob>>

\* the greedy branch: SelectActionGreedily(*test_net_, frames_batch, cont),
\* which returns at once on an empty batch
SelectGreedily(frames_batch, epsilon, cont) ==
    IF frames_batch = <<>>
    THEN /\ ret' = [op |-> "SelectActions", epsilon |-> epsilon,
                    coin_flips |-> 1, branch |-> "greedy", forwards |-> 0,
                    actions |-> <<>>]
         /\ UNCHANGED <<buffer_vars, q_values_blob>>
    ELSE /\ frame_input_' = StagedFrames(frame_input_, frames_batch)
         /\ cont_input_' = FilledCont(cont_input_, cont)
         /\ \E blob \in ForwardOutputs(Len(frames_batch)) :
               /\ q_values_blob' = blob
               /\ ret' = [op |-> "SelectActions", epsilon |-> epsilon,
                          coin_flips |-> 1, branch |-> "greedy", forwards |-> 1,
                          actions |-> [i \in 1..Len(frames_batch) |->
                                          GreedyResult(blob, i - 1)[1]]]
         /\ UNCHANGED <<target_input_, filter_input_>>

SelectActions(frames_batch, epsilon, cont) ==
    /\ epsilon >= 0 /\ epsilon <= EpsilonSteps
    /\ Len(frames_batch) <= minibatch_size_
    /\ \E explore \in {Explores(coin, epsilon) : coin \in 0..(EpsilonSteps - 1)} :
          IF explore
          THEN SelectRandomly(frames_batch, epsilon)
          ELSE SelectGreedily(frames_batch, epsilon, cont)
    /\ UNCHANGED <<config_vars, memory_vars, clone_net_, last_clone_iter_,
                   solver_iter, fs, appended, saved>>

-----------------------------------------------------------------------------
(* DQN::UpdateRandom, DQN::UpdateSequential                                *)
(*                                                                         *)
(* One call is one action. Inside a call the staging buffers and the log   *)
(* of the calls made to the nets are threaded through as the record        *)
(*   [frame, cont, target, filter, events, oob, failed]                    *)
(* whose events are, in order, the forward passes on the clone net         *)
(* ("Evaluate") and the solver steps ("TrainStep"), the latter with the    *)
(* contents the four buffers have when the train net reads them (the       *)
(* MemoryDataLayers keep pointers into the buffers, they take no copy).    *)
(* Episodes are addressed as in the code: ep_inds[n] is an index into      *)
(* replay_memory_, transitions are numbered from 0.                        *)

\* frames_blob->offset(n, i, 0, 0) of the train net's "frames" blob, of
\* shape {minibatch_size_, frames_per_forward_, 84, 84}
TrainFramesOffset(n, i) == (n * frames_per_forward_ + i) * FrameBytes

\* cont_blob->offset(u, n, 0, 0), shape {unroll_, minibatch_size_, 1, 1}
ContOffset(u, n) == u * minibatch_size_ + n

\* target_blob->offset(u, n, action, 0) and filter_blob->offset(u, n,
\* action, 0), shape {unroll_, minibatch_size_, kOutputCount, 1}
TargetOffset(u, n, action) == (u * minibatch_size_ + n) * kOutputCount + action

\* std::copy(frame->begin(), frame->end(), frame_input_.begin() + offset)
CopyFrame(buffer, frame, offset) ==
    [x \in DOMAIN buffer |->
        IF x >= offset /\ x < offset + FrameBytes
        THEN frame[x - offset + 1] ELSE buffer[x]]

\* the "!clone_net_ || current_iteration() >= last_clone_iter_ +
\* clone_frequency_" test at the entry of both updates; Initialize has
\* created the clone, so !clone_net_ is false
CloneIsStaleStrict(iter, last_clone_iter) ==
    iter > last_clone_iter + clone_frequency_

CloneIsStale(iter, last_clone_iter) ==
    iter >= last_clone_iter + clone_frequency_

\* the q_values blob a forward pass of the clone leaves for a batch of n
\* items, given the largest Q-value max_q[i] of every item: the last legal
\* action carries it, the others carry 0
CloneForward(max_q, n) ==
    [i \in 0..(n - 1) |->
        [a \in Range(legal_actions_) |->
            IF a = legal_actions_[Len(legal_actions_)] THEN max_q[i] ELSE 0]]

\* the largest Q-values the clone produces during one call: clone_q in
\* CloneOutputs gives, for the forward pass at time step pos, item k the
\* value (clone_q + k + pos) modulo MaxQ + 1, so that the values differ
\* between the items of a batch and between the time steps
CloneOutputs == 0..MaxQ

CloneMaxQ(clone_q, pos) ==
    [k \in 0..(minibatch_size_ - 1) |-> (clone_q + k + pos) % (MaxQ + 1)]

\* SelectActionGreedily(*clone_net_, frames_batch, cont) as the updates call
\* it, at time step pos, slots[k] being the batch slot n of the update whose
\* window item k is
SelectActionGreedily(st, frames_batch, slots, cont, max_q, pos) ==
    IF frames_batch = <<>>
    THEN [st |-> st, results |-> <<>>]
    ELSE LET blob == CloneForward(max_q, Len(frames_batch))
             results == [k \in 1..Len(frames_batch) |-> GreedyResult(blob, k - 1)]
         IN  [st |-> [st EXCEPT
                        !.frame = StagedFrames(@, frames_batch),
                        !.cont = FilledCont(@, cont),
                        !.events = Append(@, [kind |-> "Evaluate",
                                              pos |-> pos,
                                              cont |-> cont,
                                              batch |-> frames_batch,
                                              slots |-> slots,
                                              values |-> [k \in 1..Len(frames_batch)
                                                            |-> results[k][2]]])],
              results |-> results]

\* InputDataIntoLayers(*net_, ...) followed by solver_->Step(1)
TrainStepTwice(st, pos) ==
    [st EXCEPT !.events = @ \o
        << [kind |-> "TrainStep", pos |-> pos, frame |-> st.frame,
            cont |-> st.cont, target |-> st.target, filter |-> st.filter],
           [kind |-> "TrainStep", pos |-> pos, frame |-> st.frame,
            cont |-> st.cont, target |-> st.target, filter |-> st.filter] >>]

TrainStep(st, pos) ==
    [st EXCEPT !.events = Append(@, [kind |-> "TrainStep", pos |-> pos,
                                     frame |-> st.frame, cont |-> st.cont,
                                     target |-> st.target,
                                     filter |-> st.filter])]

\* the episodes an update may select: a prefix of a shuffle of all episode
\* indices, of at most minibatch_size_ entries
RECURSIVE Shuffles(_)
Shuffles(S) ==
    IF S = {} THEN {<<>>}
    ELSE UNION {{<<x>> \o rest : rest \in Shuffles(S \ {x})} : x \in S}

SelectedEpisodes ==
    LET count == IF Len(replay_memory_) > minibatch_size_
                 THEN minibatch_size_ ELSE Len(replay_memory_)
    IN  {SubSeq(s, 1, count) : s \in Shuffles(0..(Len(replay_memory_) - 1))}

\* replay_memory_[ep_inds[n]]
EpisodeAt(ep_inds, n) == replay_memory_[ep_inds[n + 1] + 1]

\* the positions k of seq, in order, whose entry satisfies the test
RECURSIVE Positions(_, _)
Positions(flags, k) ==
    IF k > Len(flags) THEN <<>>
    ELSE (IF flags[k] THEN <<k - 1>> ELSE <<>>) \o Positions(flags, k + 1)

\* the CHECK_GT(episode.size(), ts) of UpdateRandom: size_t against int, so
\* a negative ts compares as a huge unsigned number and fails too
InEpisode(episode, ts) == ts >= 0 /\ ts < Len(episode)

\* a variant of LastValidFrame that leaves no room for the unroll positions
LastValidFrameNoUnroll(ep_size) == ep_size - 1 - (frames_per_timestep_ - 1)

\* int last_valid_frame = ep_size-1 - (frames_per_timestep_-1) - (unroll_-1)
LastValidFrame(ep_size) == ep_size - 1 - (frames_per_timestep_ - 1) - (unroll_ - 1)

\* what uniform_int_distribution<int>(0, last_valid_frame) may return:
\* with last_valid_frame < 0 the distribution's precondition a <= b is
\* broken and the result is any int, here one of -1, 0, 1
StartDraws(last_valid_frame) ==
    IF last_valid_frame >= 0 THEN 0..last_valid_frame ELSE {-1, 0, 1}

EpisodeStarts(ep_inds) ==
    {ep_starts \in [1..Len(ep_inds) -> -1..MaxEpLen] :
        \A n \in 0..(Len(ep_inds) - 1) :
            ep_starts[n + 1] \in
                StartDraws(LastValidFrame(Len(EpisodeAt(ep_inds, n))))}

\* what a read of episode[ts] with ts outside the episode may yield
GarbageTransitions ==
    {[frame |-> ZeroFrame, action |-> legal_actions_[1], reward |-> 0,
      next |-> NoFrame],
     [frame |-> MakeFrame(1), action |-> legal_actions_[Len(legal_actions_)],
      reward |-> 1, next |-> NoFrame]}

\* the reads outside an episode happen only when a selected episode is too
\* short for a window
GarbageFor(ep_inds) ==
    IF \E n \in 0..(Len(ep_inds) - 1) :
          LastValidFrame(Len(EpisodeAt(ep_inds, n))) < 0
    THEN GarbageTransitions
    ELSE {CHOOSE g \in GarbageTransitions : g.reward = 0}

\* episode[ts], and std::get<3>(episode[ts]).get()
TransitionAt(episode, ts, garbage) ==
    IF InEpisode(episode, ts) THEN episode[ts + 1] ELSE garbage

NextFrameAt(episode, ts, garbage) ==
    IF InEpisode(episode, ts) /\ episode[ts + 1].next # NoFrame
    THEN episode[ts + 1].next[1] ELSE garbage.frame

\* const float target = std::get<3>(transition) ?
\*     reward + gamma_ * actions_and_values[target_value_idx++].second : reward
TargetOfDiscounted(transition, results, target_value_idx) ==
    IF transition.next # NoFrame
    THEN gamma_ * (transition.reward + results[target_value_idx + 1][2])
    ELSE transition.reward

TargetOf(transition, results, target_value_idx) ==
    IF transition.next # NoFrame
    THEN transition.reward + gamma_ * results[target_value_idx + 1][2]
    ELSE transition.reward

\* the body of the "Generate the targets/filter/frames inputs" loops: the
\* filter, target and frame entries of one transition
StageTransition(st, pos, n, frame_idx, transition, results, target_value_idx) ==
    [st EXCEPT
       !.filter[TargetOffset(pos, n, transition.action)] = 1,
       !.target[TargetOffset(pos, n, transition.action)] =
           TargetOf(transition, results, target_value_idx),
       !.frame = CopyFrame(@, transition.frame, TrainFramesOffset(n, frame_idx))]

\* UpdateRandom, lines 946-965: batch slots n.. of unroll position u
RECURSIVE RandomStage(_, _, _, _, _, _, _, _)
RandomStage(ep_inds, ep_starts, garbage, results, st, u, n, target_value_idx) ==
    IF n = Len(ep_inds) THEN st
    ELSE LET ts == ep_starts[n + 1] + u + (frames_per_timestep_ - 1)
             transition == TransitionAt(EpisodeAt(ep_inds, n), ts, garbage)
         IN  RandomStage(ep_inds, ep_starts, garbage, results,
                 StageTransition(st, u, n, u + (frames_per_timestep_ - 1),
                                 transition, results, target_value_idx),
                 u, n + 1,
                 IF transition.next # NoFrame THEN target_value_idx + 1
                 ELSE target_value_idx)

\* UpdateRandom, lines 926-967: unroll positions u.. ; a failed CHECK_GT
\* ends the call (and the process) where it stands
RECURSIVE RandomUnroll(_, _, _, _, _, _)
RandomUnroll(ep_inds, ep_starts, clone_q, garbage, st, u) ==
    IF u = unroll_ THEN st
    ELSE LET last_frame_ts(n) == ep_starts[n + 1] + u + (frames_per_timestep_ - 1)
             bootstraps ==
                 [k \in 1..Len(ep_inds) |->
                     EpisodeAt(ep_inds, k - 1)[last_frame_ts(k - 1) + 1].next # NoFrame]
             slots == Positions(bootstraps, 1)
             past_frames_vec ==
                 [k \in 1..Len(slots) |->
                     [i \in 1..frames_per_timestep_ |->
                         NextFrameAt(EpisodeAt(ep_inds, slots[k]),
                                     ep_starts[slots[k] + 1] + u + i - 1, garbage)]]
             oob == \E k \in 1..Len(slots), i \in 0..(frames_per_timestep_ - 1) :
                        ep_starts[slots[k] + 1] + u + i < 0
         IN  IF \E n \in 0..(Len(ep_inds) - 1) :
                   ~InEpisode(EpisodeAt(ep_inds, n), last_frame_ts(n))
             THEN [st EXCEPT !.failed = TRUE]
             ELSE LET g == SelectActionGreedily(
                               [st EXCEPT !.oob = @ \/ oob], past_frames_vec,
                               slots, u > 0, CloneMaxQ(clone_q, u), u)
                  IN  RandomUnroll(ep_inds, ep_starts, clone_q, garbage,
                          RandomStage(ep_inds, ep_starts, garbage, g.results,
                                      g.st, u, 0, 0),
                          u + 1)

\* UpdateRandom, lines 968-976: the frames before the first unroll position
RECURSIVE RandomPreInput(_, _, _, _, _)
RandomPreInput(ep_inds, ep_starts, garbage, st, k) ==
    IF k = Len(ep_inds) * (frames_per_timestep_ - 1) THEN st
    ELSE LET n == k \div (frames_per_timestep_ - 1)
             i == k % (frames_per_timestep_ - 1)
             ts == ep_starts[n + 1] + i
         IN  RandomPreInput(ep_inds, ep_starts, garbage,
                 [st EXCEPT
                    !.frame = CopyFrame(@,
                        TransitionAt(EpisodeAt(ep_inds, n), ts, garbage).frame,
                        TrainFramesOffset(n, i)),
                    !.oob = @ \/ ts < 0 \/ ts >= Len(EpisodeAt(ep_inds, n))],
                 k + 1)

\* UpdateRandom, lines 903-909: the buffers before the unroll loop
RandomBuffers ==
    [frame  |-> [x \in DOMAIN frame_input_ |-> 0],
     filter |-> [x \in DOMAIN filter_input_ |-> 0],
     target |-> [x \in DOMAIN target_input_ |-> 0],
     cont   |-> [x \in DOMAIN cont_input_ |->
                    IF \E n \in 0..(minibatch_size_ - 1) : x = ContOffset(0, n)
                    THEN 0 ELSE 1],
     events |-> <<>>, oob |-> FALSE, failed |-> FALSE]

\* the body of UpdateRandom after the clone refresh
RandomRun(ep_inds, ep_starts, clone_q, garbage) ==
    LET st == RandomUnroll(ep_inds, ep_starts, clone_q, garbage, RandomBuffers, 0)
    IN  IF st.failed THEN st
        ELSE TrainStep(RandomPreInput(ep_inds, ep_starts, garbage, st, 0), 0)

\* the clone refresh at the entry of both updates: CloneNet(*test_net_)
\* copies the parameters of the live net, named by the iteration that made
\* them
RefreshedClone(refresh) == IF refresh THEN solver_iter ELSE clone_net_

\* a variant of RefreshedIter that does not record the refresh
RefreshedIterKept(refresh) == last_clone_iter_

RefreshedIter(refresh) == IF refresh THEN solver_iter ELSE last_clone_iter_

UpdateRandom ==
    /\ solver_iter < MaxIter
    /\ \E ep_inds \in SelectedEpisodes, clone_q \in CloneOutputs :
        \E ep_starts \in EpisodeStarts(ep_inds), garbage \in GarbageFor(ep_inds) :
          \E refresh \in {CloneIsStale(solver_iter, last_clone_iter_)},
             st \in {RandomRun(ep_inds, ep_starts, clone_q, garbage)} :
              \E crash \in {FALSE} \cup {st.oob} :
                /\ clone_net_' = RefreshedClone(refresh)
                /\ last_clone_iter_' = RefreshedIter(refresh)
                /\ frame_input_' = st.frame
                /\ cont_input_' = st.cont
                /\ target_input_' = st.target
                /\ filter_input_' = st.filter
                /\ solver_iter' = IF st.failed \/ crash THEN solver_iter
                                  ELSE solver_iter + 1
                /\ ret' = [op |-> "UpdateRandom",
                           outcome |-> IF crash THEN "crash"
                                       ELSE IF st.failed THEN "abort"
                                       ELSE "returned",
                           value |-> IF st.failed \/ crash THEN -1 ELSE 1,
                           iter |-> solver_iter,
                           refreshed |-> refresh,
                           ep_inds |-> ep_inds,
                           ep_starts |-> ep_starts,
                           oob |-> st.oob,
                           events |-> st.events]
    /\ UNCHANGED <<config_vars, memory_vars, q_values_blob, fs, appended, saved>>

\* a variant of SequentialActive that gives an episode up one step early
SequentialActiveEarly(episode, t) ==
    t + 2 < Len(episode) /\ episode[t + 1].next # NoFrame

\* UpdateSequential, line 768: episode n is active at time step t
SequentialActive(episode, t) ==
    t < Len(episode) /\ episode[t + 1].next # NoFrame

\* UpdateSequential, lines 752-760: the buffers at the start of a window
SequentialBuffers(st, t) ==
    [st EXCEPT
       !.frame  = [x \in DOMAIN @ |-> 0],
       !.filter = [x \in DOMAIN @ |-> 0],
       !.target = [x \in DOMAIN @ |-> 0],
       !.cont   = [x \in DOMAIN @ |->
                      IF t = 0 /\ \E n \in 0..(minibatch_size_ - 1) :
                                     x = ContOffset(0, n)
                      THEN 0 ELSE 0]]

\* UpdateSequential, lines 798-822: batch slots n.. of step i, time step t
RECURSIVE SequentialStage(_, _, _, _, _, _, _)
SequentialStage(ep_inds, results, st, i, t, n, target_value_idx) ==
    IF n = Len(ep_inds) THEN st
    ELSE LET episode == EpisodeAt(ep_inds, n)
         IN  IF t < Len(episode)
             THEN SequentialStage(ep_inds, results,
                      StageTransition(st, i, n, i, episode[t + 1], results,
                                      target_value_idx),
                      i, t, n + 1,
                      IF episode[t + 1].next # NoFrame
                      THEN target_value_idx + 1 ELSE target_value_idx)
             ELSE SequentialStage(ep_inds, results, st, i, t, n + 1,
                                  target_value_idx)

\* a variant of LastFrames that never pops the front of the deque
LastFramesUntrimmed(frame_deque) == frame_deque

\* the last frames_per_timestep_ frames of a deque
LastFrames(frame_deque) ==
    IF Len(frame_deque) > frames_per_timestep_
    THEN SubSeq(frame_deque, Len(frame_deque) - frames_per_timestep_ + 1,
                Len(frame_deque))
    ELSE frame_deque

\* UpdateSequential, line 787: CHECK_EQ(frame_deque.size(),
\* frames_per_timestep_) for every deque that is not empty
DequesFull(past_frames) ==
    \A k \in 1..Len(past_frames) :
        past_frames[k] = <<>> \/ Len(past_frames[k]) = frames_per_timestep_

\* the value of target_value_idx after the staging loop of time step t: the
\* transitions of time step t that have a next frame
ValuesConsumed(ep_inds, t) ==
    Cardinality({n \in 0..(Len(ep_inds) - 1) :
                    /\ t < Len(EpisodeAt(ep_inds, n))
                    /\ EpisodeAt(ep_inds, n)[t + 1].next # NoFrame})

\* UpdateSequential, lines 761-824: steps i.. of one window; loc holds the
\* locals [st, t, past_frames, active_episodes].  A failed CHECK_EQ (line
\* 787 or line 823) ends the process: st.failed is set and the steps stop.
RECURSIVE SequentialSteps(_, _, _, _)
SequentialSteps(ep_inds, clone_q, loc, i) ==
    IF i = unroll_ THEN loc
    ELSE LET t == loc.t
             past_frames ==
                 [k \in 1..Len(ep_inds) |->
                     IF SequentialActive(EpisodeAt(ep_inds, k - 1), t)
                     THEN LastFrames(Append(loc.past_frames[k],
                              EpisodeAt(ep_inds, k - 1)[t + 1].next[1]))
                     ELSE <<>>]
             active_episodes ==
                 \E k \in 1..Len(ep_inds) :
                     SequentialActive(EpisodeAt(ep_inds, k - 1), t)
             slots == Positions([k \in 1..Len(ep_inds) |-> past_frames[k] # <<>>], 1)
             past_frames_vec == [k \in 1..Len(slots) |-> past_frames[slots[k] + 1]]
             g == SelectActionGreedily(loc.st, past_frames_vec, slots, t > 0,
                                       CloneMaxQ(clone_q, t), t)
         IN  IF t < frames_per_timestep_
             THEN SequentialSteps(ep_inds, clone_q,
                      [st |-> loc.st, t |-> t + 1, past_frames |-> past_frames,
                       active_episodes |-> active_episodes],
                      i + 1)
             ELSE IF ~DequesFull(past_frames)
                     \/ ValuesConsumed(ep_inds, t) # Len(g.results)
             THEN [st |-> [loc.st EXCEPT !.failed = TRUE], t |-> t,
                   past_frames |-> past_frames,
                   active_episodes |-> active_episodes]
             ELSE SequentialSteps(ep_inds, clone_q,
                      [st |-> SequentialStage(ep_inds, g.results, g.st, i, t, 0, 0),
                       t |-> t + 1,
                       past_frames |-> past_frames,
                       active_episodes |-> active_episodes],
                      i + 1)

\* UpdateSequential, lines 751-850: the windows, one solver step each
RECURSIVE SequentialWindows(_, _, _, _)
SequentialWindows(ep_inds, clone_q, loc, update_step) ==
    IF ~loc.active_episodes THEN [st |-> loc.st, update_step |-> update_step]
    ELSE LET done == SequentialSteps(ep_inds, clone_q,
                         [loc EXCEPT !.st = SequentialBuffers(@, loc.t)], 0)
         IN  IF done.st.failed
             THEN [st |-> done.st, update_step |-> update_step]
             ELSE SequentialWindows(ep_inds, clone_q,
                      [done EXCEPT !.st = TrainStep(@, loc.t)], update_step + 1)

\* the body of UpdateSequential after the clone refresh
SequentialRun(ep_inds, clone_q) ==
    SequentialWindows(ep_inds, clone_q,
        [st |-> [frame |-> frame_input_, cont |-> cont_input_,
                 target |-> target_input_, filter |-> filter_input_,
                 events |-> <<>>, oob |-> FALSE, failed |-> FALSE],
         t |-> 0,
         past_frames |-> [k \in 1..Len(ep_inds) |-> <<>>],
         active_episodes |-> ep_inds # <<>>],
        0)

UpdateSequential ==
    /\ solver_iter < MaxIter
    /\ \E ep_inds \in SelectedEpisodes, clone_q \in CloneOutputs :
          \E refresh \in {CloneIsStale(solver_iter, last_clone_iter_)},
             run \in {SequentialRun(ep_inds, clone_q)} :
              /\ clone_net_' = RefreshedClone(refresh)
              /\ last_clone_iter_' = RefreshedIter(refresh)
              /\ frame_input_' = run.st.frame
              /\ cont_input_' = run.st.cont
              /\ target_input_' = run.st.target
              /\ filter_input_' = run.st.filter
              /\ solver_iter' = solver_iter + run.update_step
              /\ ret' = [op |-> "UpdateSequential",
                         outcome |-> IF run.st.failed THEN "abort" ELSE "returned",
                         value |-> IF run.st.failed THEN -1 ELSE run.update_step,
                         iter |-> solver_iter,
                         refreshed |-> refresh,
                         ep_inds |-> ep_inds,
                         ep_starts |-> [n \in 1..Len(ep_inds) |-> 0],
                         oob |-> FALSE,
                         events |-> run.st.events]
    /\ UNCHANGED <<config_vars, memory_vars, q_values_blob, fs, appended, saved>>

(***************************************************************************)
(* PreprocessScreen                                                        *)
(*                                                                         *)
(* A raw screen is [width, height, colour, other]: the pixel at column x   *)
(* and row y has the value colour when x + y is even and other when it is  *)
(* odd, so the screen has one colour exactly when colour = other.  The     *)
(* ratios x_ratio = cropped_screen_width / 84 and y_ratio =                *)
(* cropped_screen_height / 84 are kept as fractions: a coverage is a       *)
(* numerator over kCroppedFrameSize, and the term added for one source     *)
(* pixel is x_cover * y_cover * grayscale over cropped_screen_width *      *)
(* cropped_screen_height.  For the screen shapes of RawScreenShapes the    *)
(* double arithmetic of the code yields the same floors and the same       *)
(* truncated sums as these fractions.                                      *)
(***************************************************************************)
kCroppedFrameSize == 84

kCroppedFrameDataSize == kCroppedFrameSize * kCroppedFrameSize

ntsc_to_rgb ==
    <<
    0, 0, 4868682, 0, 7303023, 0, 9342606, 0,
    11184810, 0, 12632256, 0, 14079702, 0, 15527148, 0,
    4737024, 0, 6908175, 0, 8816157, 0, 10658346, 0,
    12303157, 0, 13816384, 0, 15263818, 0, 16579668, 0,
    8137728, 0, 9455633, 0, 10641953, 0, 11827760, 0,
    12816445, 0, 13804618, 0, 14661461, 0, 15517792, 0,
    9444352, 0, 10696981, 0, 11883304, 0, 13003834, 0,
    13992522, 0, 14915417, 0, 15772263, 0, 16563316, 0,
    9699328, 0, 10951194, 0, 12071474, 0, 13125704, 0,
    14048348, 0, 14970735, 0, 15761536, 0, 16552080, 0,
    8650852, 0, 9902458, 0, 11022479, 0, 12076706, 0,
    12999091, 0, 13921475, 0, 14712018, 0, 15502560, 0,
    5243012, 0, 6822298, 0, 8204461, 0, 9586368, 0,
    10770896, 0, 11889888, 0, 12942574, 0, 13929724, 0,
    1310864, 0, 3349155, 0, 5124789, 0, 6834374, 0,
    8346837, 0, 9793507, 0, 11108592, 0, 12357884, 0,
    148, 0, 1579687, 0, 2962104, 0, 4344008, 0,
    5528790, 0, 6647780, 0, 7700720, 0, 8687868, 0,
    7304, 0, 1588125, 0, 2971568, 0, 4354754, 0,
    5540562, 0, 6660321, 0, 7714287, 0, 8702204, 0,
    12388, 0, 1593472, 0, 2977176, 0, 4360368, 0,
    5546181, 0, 6666201, 0, 7720171, 0, 8708348, 0,
    16432, 0, 1598030, 0, 2982249, 0, 4365954, 0,
    5552281, 0, 6672814, 0, 7727042, 0, 8715476, 0,
    17408, 0, 1730074, 0, 3310642, 0, 4759624, 0,
    6077020, 0, 7328367, 0, 8448128, 0, 9501840, 0,
    1326080, 0, 3497752, 0, 5406253, 0, 7248962, 0,
    8894292, 0, 10408037, 0, 11855733, 0, 13171844, 0,
    3160064, 0, 5265686, 0, 7173675, 0, 8950334, 0,
    10529615, 0, 12042847, 0, 13424750, 0, 14740604, 0,
    4729856, 0, 6901012, 0, 8808998, 0, 10651192, 0,
    12296007, 0, 13809238, 0, 15256675, 0, 16572528, 0
    >>

PixelToRGB(pixel) ==
    LET rgb == ntsc_to_rgb[pixel + 1]
    IN  <<rgb \div 65536, (rgb \div 256) % 256, rgb % 256>>

\* The RGB values whose weighted sum is a whole number that the sum of the
\* three double products falls just below.
RoundsBelow == {<<214, 214, 214>>}

\* uint8_t(rgb[0] * 0.21 + rgb[1] * 0.72 + rgb[2] * 0.07)
RGBToGrayscale(rgb) ==
    LET hundredths == 21 * rgb[1] + 72 * rgb[2] + 7 * rgb[3]
    IN  IF rgb \in RoundsBelow
        THEN (hundredths \div 100) - 1
        ELSE hundredths \div 100

PixelToGrayscale(pixel) == RGBToGrayscale(PixelToRGB(pixel))

\* raw_screen.getArray()[index]; an index past the end of the array reads
\* whatever lies behind it.
RawPixel(raw_screen, index, garbage) ==
    IF index >= raw_screen.width * raw_screen.height
    THEN garbage
    ELSE IF ((index % raw_screen.width) + (index \div raw_screen.width)) % 2 = 0
         THEN raw_screen.colour
         ELSE raw_screen.other

\* static_cast<int>(.85 * raw_screen_height)
CroppedScreenHeight(raw_screen_height) == (85 * raw_screen_height) \div 100

\* The geometry PreprocessScreen derives from the screen before its loops.
ScreenGeometry(raw_screen) ==
    LET cropped_screen_height == CroppedScreenHeight(raw_screen.height)
        start_x == 8
    IN  [ raw_screen_width      |-> raw_screen.width,
          start_x               |-> start_x,
          start_y               |-> raw_screen.height - cropped_screen_height,
          cropped_screen_width  |-> raw_screen.width - start_x,
          cropped_screen_height |-> cropped_screen_height ]

\* first_x, first_y: start + floor(k * ratio); last_x, last_y with k + 1.
FirstSource(start, cropped, k) == start + ((k * cropped) \div kCroppedFrameSize)

\* x_ratio_in_resulting_pixel and y_ratio_in_resulting_pixel, as a numerator
\* over kCroppedFrameSize.
RatioInResultingPixel(start, cropped, k, x, first, last) ==
    IF x = first
    THEN kCroppedFrameSize * (x + 1 - start) - k * cropped
    ELSE IF x = last
         THEN cropped * (k + 1) - kCroppedFrameSize * (x - start)
         ELSE kCroppedFrameSize

\* resulting_color += (x_ratio_in_resulting_pixel / x_ratio) *
\*                    (y_ratio_in_resulting_pixel / y_ratio) * grayscale
\* with resulting_color a uint8_t: the sum is cut to a whole number at every
\* addition.
AddColor(geo, resulting_color, x_cover, y_cover, grayscale) ==
    LET area == geo.cropped_screen_width * geo.cropped_screen_height
    IN  ((resulting_color * area + x_cover * y_cover * grayscale) \div area) % 256

\* The inner loop over y for one column x of one destination pixel (i, j).
RECURSIVE SourceColumn(_, _, _, _, _, _, _, _, _, _)
SourceColumn(raw_screen, geo, garbage, i, x, x_cover, y, first_y, last_y, resulting_color) ==
    IF y > last_y
    THEN resulting_color
    ELSE LET y_cover == RatioInResultingPixel(geo.start_y, geo.cropped_screen_height,
                                              i, y, first_y, last_y)
             grayscale == PixelToGrayscale(
                             RawPixel(raw_screen, y * geo.raw_screen_width + x, garbage))
         IN  SourceColumn(raw_screen, geo, garbage, i, x, x_cover, y + 1, first_y, last_y,
                          AddColor(geo, resulting_color, x_cover, y_cover, grayscale))

\* The loop over x for one destination pixel (i, j).
RECURSIVE SourceColumns(_, _, _, _, _, _, _, _, _, _, _)
SourceColumns(raw_screen, geo, garbage, i, j, x, first_x, last_x, first_y, last_y, resulting_color) ==
    IF x > last_x
    THEN resulting_color
    ELSE LET x_cover == RatioInResultingPixel(geo.start_x, geo.cropped_screen_width,
                                              j, x, first_x, last_x)
         IN  SourceColumns(raw_screen, geo, garbage, i, j, x + 1, first_x, last_x,
                           first_y, last_y,
                           SourceColumn(raw_screen, geo, garbage, i, x, x_cover,
                                        first_y, first_y, last_y, resulting_color))

\* (*screen)[i * kCroppedFrameSize + j]
ResultingColor(raw_screen, geo, garbage, i, j) ==
    LET first_x == FirstSource(geo.start_x, geo.cropped_screen_width, j)
        last_x  == FirstSource(geo.start_x, geo.cropped_screen_width, j + 1)
        first_y == FirstSource(geo.start_y, geo.cropped_screen_height, i)
        last_y  == FirstSource(geo.start_y, geo.cropped_screen_height, i + 1)
    IN  SourceColumns(raw_screen, geo, garbage, i, j, first_x, first_x, last_x,
                      first_y, last_y, 0)

\* The largest index of raw_pixels the loops read: row last_y of the last
\* destination row, column last_x of the last destination column.
LastIndexRead(geo) ==
    FirstSource(geo.start_y, geo.cropped_screen_height, kCroppedFrameSize)
        * geo.raw_screen_width
    + FirstSource(geo.start_x, geo.cropped_screen_width, kCroppedFrameSize)

PreprocessedFrame(raw_screen, garbage) ==
    LET geo == ScreenGeometry(raw_screen)
    IN  [k \in 0..(kCroppedFrameDataSize - 1) |->
            ResultingColor(raw_screen, geo, garbage,
                           k \div kCroppedFrameSize, k % kCroppedFrameSize)]

\* The values a read past the end of the pixel array may give.
GarbagePixels == {0, 2 * MaxColour}

\* The columns x and the rows y of the raw screen that the loops read, over
\* all destination pixels: every x from first_x to last_x of a destination
\* column j and every y from first_y to last_y of a destination row i.
SourceRange(start, cropped) ==
    UNION {FirstSource(start, cropped, k)..FirstSource(start, cropped, k + 1) :
              k \in 0..(kCroppedFrameSize - 1)}

\* PreprocessScreen(raw_screen) for the screen the environment delivered.
PreprocessScreen ==
    /\ ret.op = "getScreen"
    /\ ret.screen.height > ret.screen.width
    /\ \E garbage \in GarbagePixels :
       \E geo \in {ScreenGeometry(ret.screen)} :
       \E out_of_bounds \in {LastIndexRead(geo)
                                >= ret.screen.width * ret.screen.height} :
       \E crash \in {FALSE} \cup {out_of_bounds} :
          ret' = IF crash
                 THEN [op |-> "PreprocessScreen", outcome |-> "crash",
                       screen |-> ret.screen, oob |-> out_of_bounds,
                       columns |-> SourceRange(geo.start_x, geo.cropped_screen_width),
                       rows |-> SourceRange(geo.start_y, geo.cropped_screen_height)]
                 ELSE [op |-> "PreprocessScreen", outcome |-> "returned",
                       screen |-> ret.screen, oob |-> out_of_bounds,
                       columns |-> SourceRange(geo.start_x, geo.cropped_screen_width),
                       rows |-> SourceRange(geo.start_y, geo.cropped_screen_height),
                       frame |-> PreprocessedFrame(ret.screen, garbage)]
    /\ UNCHANGED <<config_vars, memory_vars, buffer_vars, net_vars, fs,
                   appended, saved>>

-----------------------------------------------------------------------------
(* Initial states *)

ZeroBuffer(n) == [k \in 0..(n - 1) |-> 0]

\* the state the constructor and Initialize leave behind, for a given
\* configuration
InitDQN(legal, capacity, gamma, clone_frequency, minibatch, fpt, unroll) ==
    /\ legal_actions_ = legal
    /\ replay_memory_capacity_ = capacity
    /\ gamma_ = gamma
    /\ clone_frequency_ = clone_frequency
    /\ minibatch_size_ = minibatch
    /\ frames_per_timestep_ = fpt
    /\ unroll_ = unroll
    /\ replay_memory_ = <<>>
    /\ replay_memory_size_ = 0
    /\ frame_input_ = ZeroBuffer(minibatch * (unroll + fpt - 1) * FrameBytes)
    /\ cont_input_ = ZeroBuffer(unroll * minibatch)
    /\ target_input_ = ZeroBuffer(unroll * minibatch * kOutputCount)
    /\ filter_input_ = ZeroBuffer(unroll * minibatch * kOutputCount)
    /\ q_values_blob = <<>>
    /\ clone_net_ = 0
    /\ last_clone_iter_ = 0
    /\ solver_iter = 0
    /\ ret = [op |-> "Initialize"]
    /\ appended = <<>>
    /\ saved = <<>>

InitMemory ==
    /\ \E capacity \in 1..MaxCapacity :
          InitDQN(<<2, 0>>, capacity, 2, 2, 1, 1, 1)
    /\ fs = <<>>

NextMemory == \E episode \in TerminalEpisodes : RememberEpisode(episode)

SpecMemory == InitMemory /\ [][NextMemory]_vars

\* The persistence specification: a replay memory of small capacity, the
\* replay-memory file of one checkpoint, and, before the first call, either
\* no such file or one left by another run, whole or cut short.
MemFile == File(<<"a", "b">>, 1, "replaymemory")

LoadCapacities == {2, 5}

LoadEpisodes ==
    {MakeEpisode(1, 0, FALSE, legal_actions_),
     MakeEpisode(2, 1, FALSE, legal_actions_),
     MakeEpisode(2, 0, TRUE, legal_actions_),
     MakeEpisode(0, 0, FALSE, legal_actions_)}

OtherRunMemory ==
    <<MakeEpisode(2, 0, FALSE, <<2, 0>>), MakeEpisode(1, 1, FALSE, <<2, 0>>)>>

OtherRunStreams ==
    {SubSeq(SerializeMemory(OtherRunMemory), 1, k) :
        k \in 0..Len(SerializeMemory(OtherRunMemory))}

InitPersist ==
    /\ \E capacity \in LoadCapacities : InitDQN(<<2, 0>>, capacity, 2, 2, 1, 1, 1)
    /\ \/ fs = <<>>
       \/ \E stream \in OtherRunStreams : fs = (MemFile :> stream)

NextPersist ==
    \/ \E episode \in LoadEpisodes : RememberEpisode(episode)
    \/ ClearReplayMemory
    \/ SnapshotReplayMemory(MemFile)
    \/ LoadReplayMemory(MemFile)

SpecPersist == InitPersist /\ [][NextPersist]_vars

\* The action-selection specification: minibatches of two windows of two
\* frames, two unrolled steps, the legal actions 2 and 0 in that order, and
\* a replay memory that is empty or holds one episode.
MakeBatch(n, seed) ==
    [i \in 1..n |-> [k \in 1..frames_per_timestep_ |-> MakeFrame(seed + i + k)]]

BatchInputs == {MakeBatch(n, n) : n \in 0..minibatch_size_}

InitSelect ==
    /\ InitDQN(<<2, 0>>, 5, 2, 2, 2, 2, 2)
    /\ fs = <<>>

NextSelect ==
    \/ \E frames_batch \in BatchInputs, epsilon \in 0..EpsilonSteps,
          cont \in BOOLEAN : SelectActions(frames_batch, epsilon, cont)
    \/ /\ replay_memory_ = <<>>
       /\ RememberEpisode(MakeEpisode(2, 0, FALSE, legal_actions_))

SpecSelect == InitSelect /\ [][NextSelect]_vars

\* The training specification: minibatches of two, one of three shapes
\* (frames per time step, unroll), and a replay memory filled, before the
\* first update, with some of four episodes in their order: one cut off
\* after 4 transitions, one ending after 3, one cut off after 2, one ending
\* after 2.
UpdateShapes == {<<1, 1>>, <<1, 2>>, <<2, 2>>}

UpdateEpisodes ==
    <<MakeEpisode(4, 0, TRUE, <<2, 0>>), MakeEpisode(3, 1, FALSE, <<2, 0>>),
      MakeEpisode(2, 0, TRUE, <<2, 0>>), MakeEpisode(2, 1, FALSE, <<2, 0>>)>>

\* the episodes of UpdateEpisodes that may be remembered next: those that
\* come after every episode already in the memory
NextEpisodes ==
    {k \in 1..Len(UpdateEpisodes) :
        \A m \in 1..Len(replay_memory_) :
            \E p \in 1..(k - 1) : UpdateEpisodes[p] = replay_memory_[m]}

InitUpdate ==
    /\ \E shape \in UpdateShapes :
          InitDQN(<<2, 0>>, 20, 2, 2, 2, shape[1], shape[2])
    /\ fs = <<>>

\* a failed CHECK or a crash ends the process
Running == ("outcome" \in DOMAIN ret) => ret.outcome = "returned"

NextUpdate ==
    \/ /\ solver_iter = 0
       /\ ret.op \in {"Initialize", "RememberEpisode"}
       /\ \E k \in NextEpisodes : RememberEpisode(UpdateEpisodes[k])
    \/ Running /\ UpdateRandom
    \/ Running /\ UpdateSequential

SpecUpdate == InitUpdate /\ [][NextUpdate]_vars

\* The preprocessing specification: the environment delivers raw screens of
\* the shape of the emulator's screen (160 x 210) or of a shape whose
\* cropped region is exactly 84 x 84, in one colour or in two colours in a
\* checkerboard, and PreprocessScreen converts each of them.
RawScreenShapes == {<<160, 210>>, <<92, 99>>}

RawColours == {2 * k : k \in 0..MaxColour}

RawScreens ==
    {[width |-> shape[1], height |-> shape[2], colour |-> colour, other |-> other] :
        shape \in RawScreenShapes, colour \in RawColours, other \in RawColours}

\* ale.getScreen(): the environment hands over the next raw screen
GetScreen ==
    /\ ret.op # "getScreen"
    /\ \E raw_screen \in {s \in RawScreens : s.other \in {s.colour, 0}} :
          ret' = [op |-> "getScreen", screen |-> raw_screen]
    /\ UNCHANGED <<config_vars, memory_vars, buffer_vars, net_vars, fs,
                   appended, saved>>

InitPreprocess ==
    /\ InitDQN(<<2, 0>>, 5, 2, 2, 1, 1, 1)
    /\ fs = <<>>

NextPreprocess ==
    \/ Running /\ GetScreen
    \/ PreprocessScreen

SpecPreprocess == InitPreprocess /\ [][NextPreprocess]_vars

\* The checkpoint specification: a directory that holds, before the first
\* call, any part of the checkpoints of iterations 10 and 20 of one prefix,
\* and a solver about to reach iteration 10, 15 or 20.
Prefixes == {<<"a", "b">>, <<"a", ".">>}

InitIters == {10, 20}

SolverIters == {9, 14, 19}

InitContent(f) == IF f.ext = "replaymemory" THEN SerializeMemory(<<>>)
                  ELSE <<f.iter>>

InitFiles ==
    [solver_iter : SolverIters,
     files : UNION {SUBSET {File(p, n, e) : n \in InitIters, e \in Exts} :
                       p \in Prefixes}]

InitCheckpoints ==
    /\ replay_memory_capacity_ = 5
    /\ \E init \in InitFiles :
          /\ solver_iter = init.solver_iter
          /\ fs = [f \in init.files |-> InitContent(f)]
    /\ legal_actions_ = <<2, 0>>
    /\ gamma_ = 2
    /\ clone_frequency_ = 2
    /\ minibatch_size_ = 1
    /\ frames_per_timestep_ = 1
    /\ unroll_ = 1
    /\ replay_memory_ = <<>>
    /\ replay_memory_size_ = 0
    /\ frame_input_ = ZeroBuffer(FrameBytes)
    /\ cont_input_ = ZeroBuffer(1)
    /\ target_input_ = ZeroBuffer(kOutputCount)
    /\ filter_input_ = ZeroBuffer(kOutputCount)
    /\ q_values_blob = <<>>
    /\ clone_net_ = 0
    /\ last_clone_iter_ = 0
    /\ ret = [op |-> "Initialize"]
    /\ appended = <<>>
    /\ saved = <<>>

NextCheckpoints ==
    \/ \E prefix \in Prefixes : FindLatestSnapshot(prefix)
    \/ \E prefix \in Prefixes, remove_old \in BOOLEAN,
          snapshot_memory \in BOOLEAN :
          Snapshot(prefix, remove_old, snapshot_memory)

SpecCheckpoints == InitCheckpoints /\ [][NextCheckpoints]_vars

-----------------------------------------------------------------------------
(* Claims about RememberEpisode *)

\* C1: after every RememberEpisode the transition counter is at most the
\* capacity and equals the sum of the lengths of the stored episodes.
C1_CounterBoundedAndExact ==
    /\ replay_memory_size_ <= replay_memory_capacity_
    /\ replay_memory_size_ = SumLen(replay_memory_)

\* an episode at least as long as the capacity has just been appended on top
\* of stored episodes, and an episode survives a later append
C1_Witness ==
    /\ ret.op = "RememberEpisode"
    /\ Len(appended) >= 2
    /\ Len(appended[Len(appended)]) >= replay_memory_capacity_
    /\ ret.evicted >= 2

\* C2 (as claimed): if the counter after adding the new episode is at most
\* the capacity, equality included, RememberEpisode evicts nothing.
C2_NoEvictionUpToCapacity ==
    (ret.op = "RememberEpisode" /\ ret.size_added <= replay_memory_capacity_)
        => ret.evicted = 0

\* C3: the stored episodes are a contiguous suffix of the appended sequence,
\* in append order and whole; with capacity 10 and three appends of length
\* 4 the memory holds exactly the second and third episode, 8 transitions.
C3_StoredIsSuffix ==
    /\ \E k \in 0..Len(appended) :
          replay_memory_ = SubSeq(appended, k + 1, Len(appended))
    /\ (/\ replay_memory_capacity_ = 10
        /\ Len(appended) = 3
        /\ \A i \in 1..3 : Len(appended[i]) = 4)
       => (/\ replay_memory_ = <<appended[2], appended[3]>>
           /\ replay_memory_size_ = 8)

\* capacity 10, three different episodes of length 4 appended, the first
\* one evicted
C3_Witness ==
    /\ replay_memory_capacity_ = 10
    /\ Len(appended) = 3
    /\ \A i \in 1..3 : Len(appended[i]) = 4
    /\ appended[1] # appended[2]
    /\ appended[3] = appended[1]
    /\ Len(replay_memory_) = 2

-----------------------------------------------------------------------------
(* Claims about the replay-memory file *)

\* the next-frame links that adjacency gives an episode: every transition
\* but the last points to its successor's frame, the last has none
AdjacentNext(ep, j) == IF j < Len(ep) THEN <<ep[j + 1].frame>> ELSE NoFrame

\* C5: LoadReplayMemory of a file written by SnapshotReplayMemory, into a
\* memory with any prior contents, yields the episode count, the episode
\* lengths, the frame bytes, the actions and the rewards of the memory that
\* was written, a transition counter equal to the sum of the lengths, and
\* next-frame links equal to the adjacency of the written transitions.
C5_RoundTrip ==
    (ret.op = "LoadReplayMemory" /\ ret.filename \in DOMAIN saved) =>
        LET orig == saved[ret.filename]
        IN  /\ Len(replay_memory_) = Len(orig)
            /\ \A i \in 1..Len(orig) :
                  /\ Len(replay_memory_[i]) = Len(orig[i])
                  /\ \A j \in 1..Len(orig[i]) :
                        /\ replay_memory_[i][j].frame = orig[i][j].frame
                        /\ replay_memory_[i][j].action = orig[i][j].action
                        /\ replay_memory_[i][j].reward = orig[i][j].reward
                        /\ replay_memory_[i][j].next = AdjacentNext(orig[i], j)
            /\ replay_memory_size_ = SumLen(orig)

\* a snapshot of two or more episodes, one of them with several transitions
\* whose actions and rewards differ, was loaded over a non-empty memory
C5_Witness ==
    /\ ret.op = "LoadReplayMemory"
    /\ ret.filename \in DOMAIN saved
    /\ ret.cleared > 0
    /\ Len(saved[ret.filename]) >= 2
    /\ \E i \in 1..Len(saved[ret.filename]) :
          /\ Len(saved[ret.filename][i]) >= 2
          /\ saved[ret.filename][i][1].action # saved[ret.filename][i][1].reward
    /\ replay_memory_size_ >= 3

\* C6 (as claimed): a LoadReplayMemory that found its stream truncated
\* reports an error to its caller instead of completing normally.
C6_TruncatedLoadFails ==
    (ret.op = "LoadReplayMemory" /\ ret.failbit) => ret.error

-----------------------------------------------------------------------------
(* Claims about the checkpoint files *)

\* the .solverstate files the scan of FindLatestSnapshot(prefix) visits that
\* have their .caffemodel and their .replaymemory beside them
CompleteCheckpoints(prefix) ==
    {f \in FilesMatchingRegexp(fs, prefix, {"solverstate"}) :
        /\ File(f.prefix, f.iter, "caffemodel") \in DOMAIN fs
        /\ File(f.prefix, f.iter, "replaymemory") \in DOMAIN fs}

CheckpointOf(prefix, n, exts) == {File(prefix, n, e) : e \in exts}

\* C4: whatever the order of the scan, FindLatestSnapshot returns a
\* checkpoint with all three artifacts and the highest iteration among
\* those, never a checkpoint that misses an artifact, and the empty result
\* exactly when no checkpoint is complete; with iteration 10 complete and
\* iteration 20 without its replay memory it returns iteration 10.
C4_LatestCompleteSnapshot ==
    (ret.op = "FindLatestSnapshot") =>
        /\ (ret.latest = NoFile) <=> (CompleteCheckpoints(ret.prefix) = {})
        /\ (ret.latest # NoFile) =>
               /\ ret.latest \in CompleteCheckpoints(ret.prefix)
               /\ \A g \in CompleteCheckpoints(ret.prefix) :
                      g.iter <= ret.latest.iter
        /\ (DOMAIN fs = CheckpointOf(ret.prefix, 10, Exts)
                 \cup CheckpointOf(ret.prefix, 20, {"solverstate", "caffemodel"}))
               => ret.latest = File(ret.prefix, 10, "solverstate")

\* iteration 20 without its replay memory was scanned before the complete
\* iteration 10, and iteration 10 was returned
C4_Witness ==
    /\ ret.op = "FindLatestSnapshot"
    /\ DOMAIN fs = CheckpointOf(ret.prefix, 10, Exts)
           \cup CheckpointOf(ret.prefix, 20, {"solverstate", "caffemodel"})
    /\ Len(ret.scanned) = 2
    /\ ret.scanned[1].iter = 20
    /\ ret.latest = File(ret.prefix, 10, "solverstate")

\* the files Snapshot writes
SnapshotWrites(r) ==
    CheckpointOf(r.prefix, r.snapshot_iter,
                 IF r.snapshot_memory THEN Exts ELSE {"caffemodel", "solverstate"})

\* C7 (as claimed): Snapshot with remove_old deletes exactly the files of
\* its own prefix with an iteration below the snapshot's, of all three
\* kinds, and nothing else; without remove_old it deletes nothing.
C7_RemovesOlderOfSamePrefixOnly ==
    (ret.op = "Snapshot") =>
        DOMAIN fs =
            (ret.before \cup SnapshotWrites(ret))
              \ (IF ret.remove_old
                  THEN {f \in ret.before :
                           f.prefix = ret.prefix /\ f.iter < ret.snapshot_iter}
                  ELSE {})

-----------------------------------------------------------------------------
(* Claims about SelectActions *)

\* C8: SelectActions flips one coin per call for the whole batch, and with
\* epsilon = 1 every call takes the random branch: no forward pass runs on
\* the test net and every returned action is a legal action.
C8_PureExploration ==
    (ret.op = "SelectActions") =>
        /\ ret.coin_flips = 1
        /\ (ret.epsilon = EpsilonSteps) =>
               /\ ret.branch = "random"
               /\ ret.forwards = 0
               /\ \A i \in 1..Len(ret.actions) :
                      ret.actions[i] \in Range(legal_actions_)

\* a call with epsilon = 1 on a full batch returned two different actions,
\* after an earlier greedy call had run the test net
C8_Witness ==
    /\ ret.op = "SelectActions"
    /\ ret.epsilon = EpsilonSteps
    /\ Len(ret.actions) = minibatch_size_
    /\ ret.actions[1] # ret.actions[2]
    /\ q_values_blob # <<>>

\* C9: with epsilon = 0 SelectActions returns, for every batch item, the
\* legal action whose Q-value in the q_values blob is maximal for that item,
\* and among several maximal ones the first in the legal-action list.
C9_GreedyArgmaxFirst ==
    (ret.op = "SelectActions" /\ ret.epsilon = 0) =>
        /\ ret.branch = "greedy"
        /\ \A i \in 1..Len(ret.actions) :
              \E k \in 1..Len(legal_actions_) :
                 /\ ret.actions[i] = legal_actions_[k]
                 /\ \A m \in 1..Len(legal_actions_) :
                       q_values_blob[i - 1][legal_actions_[m]]
                           <= q_values_blob[i - 1][legal_actions_[k]]
                 /\ \A m \in 1..(k - 1) :
                       q_values_blob[i - 1][legal_actions_[m]]
                           < q_values_blob[i - 1][legal_actions_[k]]

\* a greedy call on two items: the first item's Q-values tie and it gets
\* the first legal action, the second item's maximum is the second legal
\* action
C9_Witness ==
    /\ ret.op = "SelectActions"
    /\ ret.epsilon = 0
    /\ Len(ret.actions) = 2
    /\ q_values_blob[0][legal_actions_[1]] = q_values_blob[0][legal_actions_[2]]
    /\ ret.actions[1] = legal_actions_[1]
    /\ q_values_blob[1][legal_actions_[2]] > q_values_blob[1][legal_actions_[1]]
    /\ ret.actions[2] = legal_actions_[2]

\* C10 (as claimed): a call of SelectActions leaves the replay memory, the
\* transition counter, the last-clone iteration, the target clone and the
\* frame, continuation, target and filter staging buffers as they were.
C10_NoSideEffects ==
    [][(ret'.op = "SelectActions") =>
          UNCHANGED <<replay_memory_, replay_memory_size_, last_clone_iter_,
                      clone_net_, frame_input_, cont_input_, target_input_,
                      filter_input_>>]_vars

\* C10 (amended): a call of SelectActions leaves the replay memory, the
\* transition counter, the last-clone iteration, the target clone and the
\* target and filter buffers as they were; it leaves the frame and
\* continuation buffers as they were when it takes the random branch or
\* the batch is empty, and otherwise zero-fills the frame buffer, stages
\* the batch's frames in it and fills the continuation buffer with cont.
C10_SideEffectsOnStagingOnly ==
    [][(ret'.op = "SelectActions") =>
          /\ UNCHANGED <<replay_memory_, replay_memory_size_, last_clone_iter_,
                         clone_net_, target_input_, filter_input_>>
          /\ (ret'.branch = "random" \/ ret'.actions = <<>>) =>
                 UNCHANGED <<frame_input_, cont_input_>>
          /\ (ret'.branch = "greedy" /\ ret'.actions # <<>>) =>
                 /\ \E cont \in {0, 1} :
                       \A x \in DOMAIN cont_input_' : cont_input_'[x] = cont
                 /\ \A x \in DOMAIN frame_input_' :
                       (x >= Len(ret'.actions) * frames_per_timestep_ * FrameBytes)
                           => frame_input_'[x] = 0]_vars

\* a greedy call on one item has staged its frames and set every
\* continuation flag, with an episode in the replay memory
C10_Witness ==
    /\ ret.op = "SelectActions"
    /\ ret.branch = "greedy"
    /\ Len(ret.actions) = 1
    /\ replay_memory_ # <<>>
    /\ \E x \in DOMAIN frame_input_ : frame_input_[x] # 0
    /\ \A x \in DOMAIN cont_input_ : cont_input_[x] = 1

-----------------------------------------------------------------------------
(* Claims about UpdateRandom and UpdateSequential *)

IsUpdate == ret.op \in {"UpdateRandom", "UpdateSequential"}

\* episode n of the last update
SelectedEpisode(n) == replay_memory_[ret.ep_inds[n + 1] + 1]

\* every episode the last update selected is long enough for a window
AllEligible ==
    \A n \in 0..(Len(ret.ep_inds) - 1) :
        ret.op = "UpdateRandom" =>
            Len(SelectedEpisode(n)) >= frames_per_timestep_ + unroll_ - 1

TrainSteps == {j \in 1..Len(ret.events) : ret.events[j].kind = "TrainStep"}

Evaluations == {j \in 1..Len(ret.events) : ret.events[j].kind = "Evaluate"}

\* the transitions the update stages for the solver step ret.events[j]:
\* unroll position u, batch slot n, transition ts of episode n, the clone
\* being asked at time step pos
StagedCells(j) ==
    IF ret.op = "UpdateRandom"
    THEN {[u |-> u, n |-> n, pos |-> u,
           ts |-> ret.ep_starts[n + 1] + u + frames_per_timestep_ - 1] :
             u \in 0..(unroll_ - 1), n \in 0..(Len(ret.ep_inds) - 1)}
    ELSE {c \in {[u |-> u, n |-> n, pos |-> ret.events[j].pos + u,
                  ts |-> ret.events[j].pos + u] :
                    u \in 0..(unroll_ - 1), n \in 0..(Len(ret.ep_inds) - 1)} :
            c.ts >= frames_per_timestep_ /\ c.ts < Len(SelectedEpisode(c.n))}

\* the next-state window of transition ts: the frames that follow the
\* transitions ts - frames_per_timestep_ + 1 .. ts
NextStateWindow(episode, ts) ==
    [i \in 1..frames_per_timestep_ |->
        episode[ts - frames_per_timestep_ + i + 1].next[1]]

\* the target the claim asks for in a cell
ClaimedTarget(c) ==
    LET tr == SelectedEpisode(c.n)[c.ts + 1]
    IN  IF tr.next = NoFrame THEN {tr.reward}
        ELSE {tr.reward + gamma_ * ret.events[e].values[k] :
                <<e, k>> \in {p \in Evaluations \X (1..minibatch_size_) :
                    /\ ret.events[p[1]].pos = c.pos
                    /\ p[2] <= Len(ret.events[p[1]].slots)
                    /\ ret.events[p[1]].slots[p[2]] = c.n
                    /\ ret.events[p[1]].batch[p[2]] =
                           NextStateWindow(SelectedEpisode(c.n), c.ts)}}

\* C11: in both updates the target handed to a solver step is, for every
\* staged transition, its reward when it has no next frame and otherwise
\* reward + gamma * q, q being the clone's largest Q-value over the legal
\* actions for that transition's own next-state window; every other entry of
\* the target tensor is 0.
C11_TargetRule ==
    (IsUpdate /\ ret.outcome = "returned" /\ AllEligible) =>
        \A j \in TrainSteps :
            /\ \A c \in StagedCells(j) :
                  ret.events[j].target[TargetOffset(c.u, c.n,
                      SelectedEpisode(c.n)[c.ts + 1].action)] \in ClaimedTarget(c)
            /\ \A x \in DOMAIN ret.events[j].target :
                  (\A c \in StagedCells(j) :
                      x # TargetOffset(c.u, c.n, SelectedEpisode(c.n)[c.ts + 1].action))
                  => ret.events[j].target[x] = 0

\* one solver step got both a terminal transition with a non-zero reward and
\* a bootstrapped transition whose clone value is not 0
C11_Witness ==
    /\ IsUpdate /\ ret.outcome = "returned" /\ AllEligible
    /\ \E j \in TrainSteps :
          /\ \E c \in StagedCells(j) :
                /\ SelectedEpisode(c.n)[c.ts + 1].next = NoFrame
                /\ SelectedEpisode(c.n)[c.ts + 1].reward # 0
          /\ \E c \in StagedCells(j) :
                /\ SelectedEpisode(c.n)[c.ts + 1].next # NoFrame
                /\ \E e \in Evaluations :
                      /\ ret.events[e].pos = c.pos
                      /\ \E k \in 1..Len(ret.events[e].values) :
                            /\ ret.events[e].slots[k] = c.n
                            /\ ret.events[e].values[k] > 0

\* C12: an update refreshes the clone from the live parameters and sets the
\* last-clone iteration to the current iteration at its entry exactly when
\* the current iteration >= last-clone iteration + clone frequency (the
\* clone exists from Initialize on); otherwise it leaves both as they were;
\* the solver steps of the call change neither.
C12_CloneRefresh ==
    [][(ret'.op \in {"UpdateRandom", "UpdateSequential"}) =>
          IF solver_iter >= last_clone_iter_ + clone_frequency_
          THEN clone_net_' = solver_iter /\ last_clone_iter_' = solver_iter
          ELSE UNCHANGED <<clone_net_, last_clone_iter_>>]_vars

\* an update found the clone stale at a later iteration, refreshed it and
\* then trained: the clone holds the parameters of the entry
C12_Witness ==
    /\ IsUpdate /\ ret.outcome = "returned"
    /\ ret.refreshed
    /\ ret.iter = clone_frequency_
    /\ clone_net_ = ret.iter /\ last_clone_iter_ = ret.iter
    /\ solver_iter > ret.iter

\* C13: every call of UpdateRandom that returns, whatever the replay memory
\* holds, has made exactly one solver step, made it last, after the filter
\* got its entry for every unroll position and selected episode, and
\* returns 1.
C13_OneTrainStep ==
    (ret.op = "UpdateRandom" /\ ret.outcome = "returned") =>
        /\ ret.value = 1
        /\ solver_iter = ret.iter + 1
        /\ TrainSteps = {Len(ret.events)}
        /\ \A u \in 0..(unroll_ - 1), n \in 0..(Len(ret.ep_inds) - 1) :
              \E a \in Range(legal_actions_) :
                  ret.events[Len(ret.events)].filter[TargetOffset(u, n, a)] = 1

\* UpdateRandom returned with one episode in a minibatch of two, after
\* asking the clone at both unroll positions
C13_Witness ==
    /\ ret.op = "UpdateRandom" /\ ret.outcome = "returned"
    /\ Len(ret.ep_inds) = 1 /\ minibatch_size_ = 2
    /\ unroll_ = 2
    /\ Cardinality(Evaluations) = 2

\* C14: UpdateSequential returns the number of solver steps it made, and it
\* makes a solver step only for a window in which at least one transition
\* was written into the filter; on an empty replay memory it makes none and
\* returns 0.
C14_FlushOnlyFilledWindows ==
    (ret.op = "UpdateSequential") =>
        /\ ret.value = Cardinality(TrainSteps)
        /\ solver_iter = ret.iter + ret.value
        /\ \A j \in TrainSteps :
              \E x \in DOMAIN ret.events[j].filter : ret.events[j].filter[x] = 1
        /\ (replay_memory_ = <<>>) => (ret.value = 0 /\ TrainSteps = {})

\* C15: when an episode UpdateRandom selected is shorter than
\* frames_per_timestep_ + unroll_ - 1 transitions, the call ends by
\* signalling the condition: it does not return normally or crash, and it
\* reads no transition outside the episode.
C15_ShortEpisodeSignalled ==
    (ret.op = "UpdateRandom" /\ ~AllEligible) =>
        /\ ret.outcome \notin {"returned", "crash"}
        /\ ~ret.oob

-----------------------------------------------------------------------------
(* Claims about the recurrent state and the staged tensors of the updates *)

\* the evaluation of the clone that precedes evaluation j in the same call,
\* or 0 when there is none
PrecedingEvaluation(j) ==
    IF \E i \in Evaluations : i < j
    THEN CHOOSE i \in Evaluations :
            i < j /\ \A k \in Evaluations : k < j => k <= i
    ELSE 0

\* C17: in a pass of UpdateSequential the first evaluation of the clone is
\* issued with continuation false and every later one with continuation
\* true, and the continuation tensor of every solver step is 0 at the
\* entries of global time step 0 and 1 at all other entries.
C17_ContinuationFalseOnlyAtStepZero ==
    (ret.op = "UpdateSequential") =>
        /\ \A j \in Evaluations :
              ret.events[j].cont = (PrecedingEvaluation(j) # 0)
        /\ \A j \in TrainSteps :
              \A u \in 0..(unroll_ - 1), n \in 0..(minibatch_size_ - 1) :
                  ret.events[j].cont[ContOffset(u, n)] =
                      IF ret.events[j].pos + u = 0 THEN 0 ELSE 1

\* C18: when UpdateSequential evaluates the clone with continuation true,
\* the call has evaluated it before, and every slot of the batch holds the
\* episode that the same slot held in the preceding evaluation.
C18_SlotsKeepTheirEpisode ==
    (ret.op = "UpdateSequential") =>
        \A j \in Evaluations :
            ret.events[j].cont =>
                /\ PrecedingEvaluation(j) # 0
                /\ \A k \in 1..Len(ret.events[j].slots) :
                      /\ k <= Len(ret.events[PrecedingEvaluation(j)].slots)
                      /\ ret.events[PrecedingEvaluation(j)].slots[k] =
                             ret.events[j].slots[k]

\* C19: when UpdateRandom has drawn a window in every selected episode, the
\* frame tensor of its solver step holds, for every selected episode n and
\* every position k of the window, the frame of transition ep_starts[n] + k.
C19_FrameTensorHoldsWindow ==
    (ret.op = "UpdateRandom" /\ ret.outcome = "returned" /\ AllEligible /\ ~ret.oob) =>
        \A j \in TrainSteps :
            \A n \in 0..(Len(ret.ep_inds) - 1), k \in 0..(frames_per_forward_ - 1) :
                \A b \in 0..(FrameBytes - 1) :
                    ret.events[j].frame[TrainFramesOffset(n, k) + b] =
                        SelectedEpisode(n)[ret.ep_starts[n + 1] + k + 1].frame[b + 1]

\* C20: the continuation tensor of the solver step of UpdateRandom is 0 at
\* unroll position 0 and 1 at every later position, in every batch slot, and
\* the evaluation of the clone at position u is issued with continuation
\* (u > 0).
C20_ContinuationByUnrollPosition ==
    (ret.op = "UpdateRandom" /\ ret.outcome = "returned" /\ AllEligible /\ ~ret.oob) =>
        /\ \A j \in TrainSteps :
              \A u \in 0..(unroll_ - 1), n \in 0..(minibatch_size_ - 1) :
                  ret.events[j].cont[ContOffset(u, n)] = IF u = 0 THEN 0 ELSE 1
        /\ \A j \in Evaluations :
              ret.events[j].cont = (ret.events[j].pos > 0)

-----------------------------------------------------------------------------
(* Claims about the passes of UpdateSequential and the windows of UpdateRandom *)

\* every episode the last update selected ends with a terminal transition
AllTerminal ==
    \A n \in 0..(Len(ret.ep_inds) - 1) :
        /\ SelectedEpisode(n) # <<>>
        /\ SelectedEpisode(n)[Len(SelectedEpisode(n))].next = NoFrame

\* the solver steps of the last update whose mask holds transition ts of
\* episode n
MaskedIn(n, ts) ==
    {j \in TrainSteps :
        /\ ts - ret.events[j].pos \in 0..(unroll_ - 1)
        /\ ret.events[j].filter[TargetOffset(ts - ret.events[j].pos, n,
                                             SelectedEpisode(n)[ts + 1].action)] = 1}

\* the number of entries of a mask that are set
MaskSize(filter) == Cardinality({x \in DOMAIN filter : filter[x] = 1})

RECURSIVE SumOver(_, _)
SumOver(f, S) ==
    IF S = {} THEN 0
    ELSE LET x == CHOOSE y \in S : TRUE IN f[x] + SumOver(f, S \ {x})

\* C21: a pass of UpdateSequential over episodes that all end with a
\* terminal transition returns; its last window starts before the end of the
\* longest chosen episode; every transition of a chosen episode at an index
\* of frames_per_timestep_ or more is in the mask of exactly one solver
\* step, and the masks hold nothing else.
C21_SequentialReplaysEveryStep ==
    (ret.op = "UpdateSequential" /\ ret.ep_inds # <<>> /\ AllTerminal) =>
        /\ ret.outcome = "returned"
        /\ \E n \in 0..(Len(ret.ep_inds) - 1) :
              (ret.value - 1) * unroll_ < Len(SelectedEpisode(n))
        /\ \A n \in 0..(Len(ret.ep_inds) - 1) :
              \A ts \in frames_per_timestep_..(Len(SelectedEpisode(n)) - 1) :
                  Cardinality(MaskedIn(n, ts)) = 1
        /\ SumOver([j \in TrainSteps |-> MaskSize(ret.events[j].filter)], TrainSteps)
             = SumOver([n \in 0..(Len(ret.ep_inds) - 1) |->
                           IF Len(SelectedEpisode(n)) > frames_per_timestep_
                           THEN Len(SelectedEpisode(n)) - frames_per_timestep_
                           ELSE 0],
                       0..(Len(ret.ep_inds) - 1))

\* C21 witness: a pass over two episodes of different lengths, both ending
\* with a terminal transition, in windows of two steps, with two solver steps.
C21_Witness ==
    /\ ret.op = "UpdateSequential" /\ ret.outcome = "returned"
    /\ Len(ret.ep_inds) = 2 /\ AllTerminal
    /\ Len(SelectedEpisode(0)) # Len(SelectedEpisode(1))
    /\ unroll_ = 2
    /\ ret.value = 2
    /\ MaskedIn(1, frames_per_timestep_) # {}

\* C22: in UpdateRandom the start offset drawn for a selected episode of L
\* >= frames_per_timestep_ + unroll_ - 1 transitions lies in
\* 0..(L - frames_per_timestep_ - unroll_ + 1); when every selected episode
\* is that long, no transition is read outside its episode and no CHECK
\* fails, so the call returns.
C22_WindowFitsEpisode ==
    (ret.op = "UpdateRandom") =>
        /\ \A n \in 0..(Len(ret.ep_inds) - 1) :
              Len(SelectedEpisode(n)) >= frames_per_timestep_ + unroll_ - 1 =>
                  /\ ret.ep_starts[n + 1] >= 0
                  /\ ret.ep_starts[n + 1] + frames_per_timestep_ + unroll_ - 1
                        <= Len(SelectedEpisode(n))
        /\ AllEligible => (ret.outcome = "returned" /\ ~ret.oob)

\* C22 witness: a call that selected two episodes, both long enough for a
\* window of two history frames and two unroll positions, one of them with
\* the window at the end of the episode.
C22_Witness ==
    /\ ret.op = "UpdateRandom" /\ ret.outcome = "returned"
    /\ unroll_ = 2 /\ frames_per_timestep_ = 2
    /\ Len(ret.ep_inds) = 2 /\ AllEligible
    /\ \E n \in 0..1 :
          /\ ret.ep_starts[n + 1] > 0
          /\ ret.ep_starts[n + 1] + 3 = Len(SelectedEpisode(n))
    /\ Cardinality(TrainSteps) = 1

\* the selected episodes lack a next frame at their final transition at most
WellFormedEpisodes ==
    \A n \in 0..(Len(ret.ep_inds) - 1) :
        \A ts \in 0..(Len(SelectedEpisode(n)) - 2) :
            SelectedEpisode(n)[ts + 1].next # NoFrame

\* the chosen episodes, in batch order, whose transition at time step t has
\* a next frame
NonTerminalAt(t) ==
    Positions([k \in 1..Len(ret.ep_inds) |->
                  /\ t < Len(SelectedEpisode(k - 1))
                  /\ SelectedEpisode(k - 1)[t + 1].next # NoFrame], 1)

\* the evaluations of the clone at time step t
EvaluationsAt(t) == {e \in Evaluations : ret.events[e].pos = t}

StepsBefore(j) == Cardinality({k \in TrainSteps : k < j})

\* the training iteration at which event j of the last update happened
IterationAt(j) == ret.iter + StepsBefore(j)

\* C24 as stated: at every evaluation of the clone by an update, the
\* training iteration is less than clone_frequency_ past the iteration of
\* the last clone, the evaluations that follow solver steps of the same
\* pass included.
C24_CloneNeverStale ==
    IsUpdate =>
        \A e \in Evaluations :
            IterationAt(e) - last_clone_iter_ < clone_frequency_

\* C24 amended: the clone is not stale when an update begins: at every
\* evaluation of the clone the training iteration is less than
\* clone_frequency_ plus the number of solver steps the same call has made
\* past the iteration of the last clone, and never before it.
C24_CloneFreshWhenUpdateBegins ==
    IsUpdate =>
        \A e \in Evaluations :
            /\ IterationAt(e) >= last_clone_iter_
            /\ IterationAt(e) - last_clone_iter_
                  < clone_frequency_ + StepsBefore(e)

\* C24 witness: a pass of UpdateSequential that refreshed the clone when it
\* began and evaluates it again after clone_frequency_ solver steps.
C24_Witness ==
    /\ ret.op = "UpdateSequential" /\ ret.outcome = "returned"
    /\ ret.refreshed /\ last_clone_iter_ = ret.iter
    /\ \E e \in Evaluations :
          /\ StepsBefore(e) >= clone_frequency_
          /\ IterationAt(e) - last_clone_iter_ >= clone_frequency_

-----------------------------------------------------------------------------
(* Claims about PreprocessScreen *)

IsPreprocessed == ret.op = "PreprocessScreen" /\ ret.outcome = "returned"

\* C16: the frame PreprocessScreen returns for a raw screen whose pixels all
\* have one colour holds, in each of its 84 x 84 samples, that colour's
\* grayscale value.
C16_UniformScreenGivesGrayscale ==
    (IsPreprocessed /\ ret.screen.colour = ret.screen.other) =>
        /\ DOMAIN ret.frame = 0..(kCroppedFrameSize * kCroppedFrameSize - 1)
        /\ \A k \in DOMAIN ret.frame :
              ret.frame[k] = PixelToGrayscale(ret.screen.colour)

-----------------------------------------------------------------------------
(* Claims about the counter after a load and about Snapshot *)

\* C25: after any sequence of RememberEpisode, ClearReplayMemory and
\* LoadReplayMemory, with the file loaded written by a memory of any size,
\* the transition counter is the sum of the lengths of the stored episodes
\* and is at most the capacity.
C25_CounterExactAndBoundedWithLoad ==
    (ret.op \in {"Initialize", "RememberEpisode", "ClearReplayMemory",
                 "SnapshotReplayMemory", "LoadReplayMemory"}) =>
        /\ replay_memory_size_ = SumLen(replay_memory_)
        /\ replay_memory_size_ <= replay_memory_capacity_

\* what FindLatestSnapshot(prefix) may return on the files, over the orders
\* of the directory scan
LatestSnapshots(files, prefix) ==
    {ScanSnapshots(files, matching_files, 1, -1, NoFile) :
        matching_files \in
            ScanOrders(FilesMatchingRegexp(files, prefix, {"solverstate"}))}

\* C26: whatever its flags, a Snapshot(prefix, ...) that starts when
\* FindLatestSnapshot(prefix) returns a checkpoint ends in a state where
\* FindLatestSnapshot(prefix) returns a checkpoint.
C26_SnapshotKeepsResumable ==
    [][(ret'.op = "Snapshot" /\ NoFile \notin LatestSnapshots(fs, ret'.prefix))
          => NoFile \notin LatestSnapshots(fs', ret'.prefix)]_vars

-----------------------------------------------------------------------------
(* Claims about the pixels PreprocessScreen reads *)

\* C27: PreprocessScreen reads, for a screen of width W and height H > W,
\* only pixels of the columns 8..(W - 1) and of the rows
\* (H - floor(0.85 * H))..(H - 1), and no index outside the W * H pixels.
C27_ReadsInsideCroppedRegion ==
    (ret.op = "PreprocessScreen") =>
        /\ \A x \in ret.columns : x >= 8 /\ x <= ret.screen.width - 1
        /\ \A y \in ret.rows :
              /\ y >= ret.screen.height - ((85 * ret.screen.height) \div 100)
              /\ y <= ret.screen.height - 1
        /\ \A x \in ret.columns, y \in ret.rows :
              y * ret.screen.width + x < ret.screen.width * ret.screen.height
        /\ ~ret.oob

=============================================================================
